---- MODULE Spec2Model ----
(***************************************************************************)
(* Double-entry ledger core of dkribeiro/simple-ledger: the in-memory      *)
(* account and transaction repositories, createAccount, createTransaction, *)
(* getAccount (balance read) and the system-wide reconciliation run with   *)
(* its lock and its optimistic (version checked) closed_balance update.    *)
(*                                                                         *)
(* Scheduling: the services run on one JavaScript thread.  Synchronous     *)
(* code is one atomic step; a reconciliation run (an async function) can   *)
(* be interleaved with other calls only where it awaits.                   *)
(***************************************************************************)
EXTENDS Integers, Sequences, FiniteSets, TLC

\* ---------------------------------------------------------------- bounds
MaxTime == 2
MaxVersion == 2
OpeningBalance == 2
MaxBalance == 3
MaxEntries == 2

\* ------------------------------------------------------- program constants
MAX_RETRIES == 10
Null == 0

\* ------------------------------------------------------------ input sets
AccountOrder == <<"a1", "a2">>
PostingOrder == <<"p1", "p2", "p3", "p4">>
TransactionOrder == <<"t1", "t2">>
AccountIds == {AccountOrder[i] : i \in DOMAIN AccountOrder}
Directions == {"debit", "credit"}
InitialBalances == {0, OpeningBalance}
Callers == {"c1", "c2"}
Amounts == {1}

VARIABLES
  accounts,                 \* AccountRepository.accounts: id -> Account
  transactions,             \* TransactionRepository.transactions, in Map insertion order
  reconciliationInProgress, \* ReconciliationService.reconciliationInProgress
  now,                      \* last value the system clock returned
  created,                  \* number of createTransaction calls that persisted lines
  committed,                \* the batches of lines those calls persisted, in order
  opened,                   \* number of createAccount calls
  stub,                     \* number of updateClosedBalance calls a stub put on the
                            \* repository will still answer with a ConflictException
                            \* (below 0: every call)
  swaps,                    \* history: <<id, expectedVersion>> of the updateClosedBalance
                            \* calls that succeeded, in order
  pc,                       \* per caller: position of its reconciliation run
  run,                      \* per caller: locals of its reconciliation run
  reply                     \* what the step just taken returned or threw

vars == <<accounts, transactions, reconciliationInProgress, now, created, committed, opened,
         swaps, stub, pc, run, reply>>

\* ------------------------------------------------------------- entities

\* new Account({id, direction, closed_balance}): version defaults to 0
NewAccount(direction, closed_balance) ==
  [direction |-> direction, closed_balance |-> closed_balance, version |-> 0]

\* new Transaction({...}) as built by CreateTransactionService.execute
NewTransaction(lineDto, transactionId) ==
  [id |-> lineDto.id, account_id |-> lineDto.account_id, amount |-> lineDto.amount,
   direction |-> lineDto.direction, transaction_id |-> transactionId,
   reconciled_at |-> Null]

\* dto.id || uuidv4(): ids are opaque, so the first id of the order that is not in
\* use stands for every id that is not in use, generated or supplied by the caller;
\* the set is empty when every id of the model is in use
FreshIds(order, used) ==
  IF \E i \in DOMAIN order : order[i] \notin used
    THEN {order[CHOOSE i \in DOMAIN order :
                  /\ order[i] \notin used
                  /\ \A j \in 1..(i - 1) : order[j] \in used]}
    ELSE {}

\* one line of dto.entries
LineDto(id, account_id, amount, direction) ==
  [id |-> id, account_id |-> account_id, amount |-> amount, direction |-> direction]

\* --------------------------------------------------- TransactionRepository

IndexOfId(store, id) ==
  IF \E i \in DOMAIN store : store[i].id = id
    THEN CHOOSE i \in DOMAIN store : store[i].id = id
    ELSE 0

\* Map.set(transaction.id, transaction): an existing key keeps its position
Save(store, transaction) ==
  IF IndexOfId(store, transaction.id) = 0
    THEN Append(store, transaction)
    ELSE [store EXCEPT ![IndexOfId(store, transaction.id)] = transaction]

\* Map.delete(id)
Delete(store, id) ==
  SelectSeq(store, LAMBDA t : t.id # id)

FindByTransactionId(store, transactionId) ==
  SelectSeq(store, LAMBDA t : t.transaction_id = transactionId)

FindByAccountId(store, accountId) ==
  SelectSeq(store, LAMBDA t : t.account_id = accountId)

\* the reconciled lines are not filtered out
FindReconciledToo(store, accountId) ==
  SelectSeq(store, LAMBDA t : t.account_id = accountId)

FindUnreconciledByAccountId(store, accountId) ==
  SelectSeq(store, LAMBDA t : t.account_id = accountId /\ t.reconciled_at = Null)

\* the filter compares the line's own id with the group's id
ReconcileByLineId(store, transactionId, reconciledAt) ==
  [i \in DOMAIN store |->
     IF store[i].id = transactionId
       THEN [store[i] EXCEPT !.reconciled_at = reconciledAt]
       ELSE store[i]]

\* forEach(transaction => transaction.reconciled_at = reconciledAt) over the whole group
ReconcileTransactionGroup(store, transactionId, reconciledAt) ==
  [i \in DOMAIN store |->
     IF store[i].transaction_id = transactionId
       THEN [store[i] EXCEPT !.reconciled_at = reconciledAt]
       ELSE store[i]]

\* Array.from(new Set(seq)): first occurrences, in order
RECURSIVE Distinct(_)
Distinct(seq) ==
  IF seq = <<>> THEN <<>>
  ELSE LET rest == Distinct(SubSeq(seq, 1, Len(seq) - 1))
           last == seq[Len(seq)]
       IN  IF \E i \in DOMAIN rest : rest[i] = last THEN rest ELSE Append(rest, last)

GetAllTransactionIds(store) ==
  Distinct([i \in DOMAIN store |-> store[i].transaction_id])

\* the reconciled lines are not filtered out
GetTransactionIdsOfAllLines(store) ==
  Distinct([i \in DOMAIN store |-> store[i].transaction_id])

GetUnreconciledTransactionIds(store) ==
  LET open == SelectSeq(store, LAMBDA t : t.reconciled_at = Null)
  IN  Distinct([i \in DOMAIN open |-> open[i].transaction_id])

\* -------------------------------------------- validate-transaction-balance

\* the amounts of the credit lines are not added
RECURSIVE TotalsOfDebits(_, _)
TotalsOfDebits(entries, acc) ==
  IF entries = <<>> THEN acc
  ELSE TotalsOfDebits(Tail(entries),
                      IF Head(entries).direction = "debit"
                        THEN [acc EXCEPT !.debits = @ + Head(entries).amount]
                        ELSE acc)

\* entries.reduce(...): debit amounts go to debits, every other line to credits
RECURSIVE Totals(_, _)
Totals(entries, acc) ==
  IF entries = <<>> THEN acc
  ELSE Totals(Tail(entries),
              IF Head(entries).direction = "debit"
                THEN [acc EXCEPT !.debits = @ + Head(entries).amount]
                ELSE [acc EXCEPT !.credits = @ + Head(entries).amount])

\* the totals are not compared
ValidateBalanceSkipped(entries) == TRUE

\* validateTransactionBalance: TRUE when it returns, FALSE when it throws BadRequestException
ValidateTransactionBalance(entries) ==
  LET totals == Totals(entries, [debits |-> 0, credits |-> 0])
  IN  totals.debits = totals.credits

\* --------------------------------------------------- ComputeBalanceService

\* the directions are not compared
ApplyAsSameDirection(currentBalance, accountDirection, transaction) ==
  currentBalance + transaction.amount

ApplyTransactionToBalance(currentBalance, accountDirection, transaction) ==
  IF accountDirection = transaction.direction
    THEN currentBalance + transaction.amount
    ELSE currentBalance - transaction.amount

RECURSIVE FoldBalance(_, _, _)
FoldBalance(balance, accountDirection, unreconciled) ==
  IF unreconciled = <<>> THEN balance
  ELSE FoldBalance(ApplyTransactionToBalance(balance, accountDirection, Head(unreconciled)),
                   accountDirection, Tail(unreconciled))

\* ComputeBalanceService.execute(account), account being accts[id]
ComputeBalance(accts, store, id) ==
  FoldBalance(accts[id].closed_balance, accts[id].direction,
              FindUnreconciledByAccountId(store, id))

\* ------------------------------------------------------ AccountRepository

\* the check compares the expected version with the version the write produces
UpdateComparesNextVersion(accts, id, newClosedBalance, expectedVersion) ==
  IF accts[id].version + 1 # expectedVersion
    THEN [ok |-> FALSE, accounts |-> accts]
    ELSE [ok |-> TRUE,
          accounts |-> [accts EXCEPT ![id] = [@ EXCEPT !.closed_balance = newClosedBalance,
                                                       !.version = expectedVersion + 1]]]

\* updateClosedBalance(id, newClosedBalance, expectedVersion): ok = FALSE is the
\* ConflictException of the version check, which leaves the account as it was
UpdateClosedBalance(accts, id, newClosedBalance, expectedVersion) ==
  IF accts[id].version # expectedVersion
    THEN [ok |-> FALSE, accounts |-> accts]
    ELSE [ok |-> TRUE,
          accounts |-> [accts EXCEPT ![id] = [@ EXCEPT !.closed_balance = newClosedBalance,
                                                       !.version = expectedVersion + 1]]]

\* ---------------------------------------------------- ReconciliationService

\* the flag is not consulted
LockNeverHeld == FALSE

\* if (this.reconciliationInProgress) throw new ConflictException(...)
LockHeld == reconciliationInProgress

\* only the groups that still have an open line are verified
VerifyOpenGroupsOnly(store) ==
  \A i \in DOMAIN store :
    store[i].reconciled_at = Null =>
      ValidateTransactionBalance(FindByTransactionId(store, store[i].transaction_id))

\* verifyTransactionIntegrity: every group in the store, reconciled or not, balances
VerifyTransactionIntegrity(store) ==
  \A i \in DOMAIN store :
    ValidateTransactionBalance(FindByTransactionId(store, store[i].transaction_id))

\* unreconciledTransactionIds.forEach(id => reconcileTransactionGroup(id, reconciledAt))
RECURSIVE MarkAll(_, _, _)
MarkAll(store, transactionIds, reconciledAt) ==
  IF transactionIds = <<>> THEN store
  ELSE MarkAll(ReconcileTransactionGroup(store, Head(transactionIds), reconciledAt),
               Tail(transactionIds), reconciledAt)

\* account ids in the order the groups and their lines are visited
RECURSIVE Concat(_)
Concat(seqs) == IF seqs = <<>> THEN <<>> ELSE Head(seqs) \o Concat(Tail(seqs))

\* only the accounts of open lines are collected
GetAccountIdsOfOpenLines(store) ==
  LET open == SelectSeq(store, LAMBDA t : t.reconciled_at = Null)
  IN  Distinct([i \in DOMAIN open |-> open[i].account_id])

GetAllAccountIdsWithTransactions(store) ==
  LET ids == GetAllTransactionIds(store)
      byGroup == [k \in DOMAIN ids |->
                    LET lines == FindByTransactionId(store, ids[k])
                    IN  [j \in DOMAIN lines |-> lines[j].account_id]]
  IN  Distinct(Concat(byGroup))

\* the delay is not capped
DelayUncapped(retries) == 100 * (2 ^ (retries - 1))

\* Math.min(100 * Math.pow(2, retries - 1), 1000)
Delay(retries) ==
  LET d == 100 * (2 ^ (retries - 1)) IN IF d < 1000 THEN d ELSE 1000

NoSummary ==
  [account_id |-> "", previous_closed_balance |-> 0, new_closed_balance |-> 0,
   transactions_included |-> 0, version |-> 0, retries |-> 0]

\* the balance is not computed again: the closed_balance read is submitted
AttemptWithoutRecompute(accts, store, accountId, retries) ==
  IF accountId \notin DOMAIN accts
    THEN [kind |-> "error", accounts |-> accts, summary |-> NoSummary, called |-> 0]
    ELSE LET previousBalance == accts[accountId].closed_balance
             currentVersion == accts[accountId].version
             unreconciledCount == Len(SelectSeq(FindByAccountId(store, accountId),
                                                LAMBDA t : t.reconciled_at = Null))
             update == IF stub # 0
                         THEN [ok |-> FALSE, accounts |-> accts]
                         ELSE UpdateClosedBalance(accts, accountId, previousBalance,
                                                  currentVersion)
         IN  IF update.ok
               THEN [kind |-> "success", accounts |-> update.accounts, called |-> 1,
                     summary |-> [account_id |-> accountId,
                                  previous_closed_balance |-> previousBalance,
                                  new_closed_balance |-> previousBalance,
                                  transactions_included |-> unreconciledCount,
                                  version |-> currentVersion + 1,
                                  retries |-> retries]]
               ELSE [kind |-> "conflict", accounts |-> accts, summary |-> NoSummary,
                     called |-> 1]

\* one pass of the try block of updateAccountWithRetry
\*   kind = "success": the summary returned; "conflict": ConflictException of the
\*   version check or of the stub; "error": any other exception (NotFoundException);
\*   called = 1 when updateClosedBalance was called
Attempt(accts, store, accountId, retries) ==
  IF accountId \notin DOMAIN accts
    THEN [kind |-> "error", accounts |-> accts, summary |-> NoSummary, called |-> 0]
    ELSE LET previousBalance == accts[accountId].closed_balance
             currentVersion == accts[accountId].version
             newBalance == ComputeBalance(accts, store, accountId)
             unreconciledCount == Len(SelectSeq(FindByAccountId(store, accountId),
                                                LAMBDA t : t.reconciled_at = Null))
             update == IF stub # 0
                         THEN [ok |-> FALSE, accounts |-> accts]
                         ELSE UpdateClosedBalance(accts, accountId, newBalance,
                                                  currentVersion)
         IN  IF update.ok
               THEN [kind |-> "success", accounts |-> update.accounts, called |-> 1,
                     summary |-> [account_id |-> accountId,
                                  previous_closed_balance |-> previousBalance,
                                  new_closed_balance |-> newBalance,
                                  transactions_included |-> unreconciledCount,
                                  version |-> currentVersion + 1,
                                  retries |-> retries]]
               ELSE [kind |-> "conflict", accounts |-> accts, summary |-> NoSummary,
                     called |-> 1]

\* ------------------------------------------------------------ run locals

\* locals of execute() while no run of the caller is in flight
IdleRun ==
  [reconciledAt |-> Null,   \* const reconciledAt = new Date()
   groups |-> 0,            \* unreconciledTransactionIds.length
   accountIds |-> <<>>,     \* account ids the for loop has not reached yet
   current |-> "",          \* accountId of the updateAccountWithRetry call in flight
   retries |-> 0,           \* its retries counter
   waiting |-> "result",    \* the await the run is suspended at: "result" or "sleep"
   delay |-> 0,             \* the delay handed to sleep()
   summaries |-> <<>>,      \* summaries pushed so far
   calls |-> 0,             \* observer: updateClosedBalance calls made for current
   failed |-> <<>>,         \* observer: the errors logged by updateAccountClosedBalances
   before |-> [a \in {} |-> 0],          \* observer: balances when the run was invoked
   closed |-> [a \in {} |-> 0],          \* observer: closed_balances at that time
   marked |-> [a \in AccountIds |-> 0],  \* observer: signed sum of the lines it marked
   quiet |-> TRUE]          \* observer: no account or line was written by others since

NoResult ==
  [reconciled_at |-> Null, total_accounts_reconciled |-> 0,
   total_transaction_groups_reconciled |-> 0, integrity_check_passed |-> FALSE,
   accounts |-> <<>>, total_retries |-> 0]

\* the TransactionResponse of a reply that carries none
NoResponse == [id |-> "", entries |-> <<>>]

Reply(op, outcome) ==
  [op |-> op, outcome |-> outcome, balance |-> 0, result |-> NoResult, run |-> IdleRun,
   response |-> NoResponse]

\* return { id: transactionId, name, entries: savedLines.map(...) }
Created(id, lines) ==
  [Reply("createTransaction", "ok") EXCEPT
     !.response = [id |-> id,
                   entries |-> [i \in DOMAIN lines |->
                                  LineDto(lines[i].id, lines[i].account_id,
                                          lines[i].amount, lines[i].direction)]]]

\* the accounts that were retried are counted, not their retries
RECURSIVE CountRetried(_)
CountRetried(summaries) ==
  IF summaries = <<>> THEN 0
  ELSE (IF Head(summaries).retries > 0 THEN 1 ELSE 0) + CountRetried(Tail(summaries))

RECURSIVE SumRetries(_)
SumRetries(summaries) ==
  IF summaries = <<>> THEN 0 ELSE Head(summaries).retries + SumRetries(Tail(summaries))

\* the object execute() returns
Result(r) ==
  [reconciled_at |-> r.reconciledAt,
   total_accounts_reconciled |-> Len(r.summaries),
   total_transaction_groups_reconciled |-> r.groups,
   integrity_check_passed |-> TRUE,
   accounts |-> r.summaries,
   total_retries |-> SumRetries(r.summaries)]

\* the check is made inside the try block, so the finally resets the flag
LockDroppedOnRejection == FALSE

\* the ConflictException of the check is thrown before the try block is entered:
\* the finally does not run and the flag stays as the run in flight set it
LockAfterRejection == reconciliationInProgress

\* the flag is reset at the end of the try block only, not in a finally
LockKeptOnThrow(thrown) == thrown

\* finally { this.reconciliationInProgress = false }, on return (thrown = FALSE)
\* and on a thrown error (thrown = TRUE)
LockAfterRun(thrown) == FALSE

\* the catch leaves the for loop: the accounts after the failed one are skipped
CaughtAndLeft(r, accountId, error) ==
  [r EXCEPT !.failed = Append(@, [account_id |-> accountId, error |-> error]),
            !.accountIds = <<>>]

\* catch (error) { this.logger.error(...) } in the for loop of
\* updateAccountClosedBalances: the error is logged and the loop goes on
Caught(r, accountId, error) ==
  [r EXCEPT !.failed = Append(@, [account_id |-> accountId, error |-> error])]

\* the retries are not limited
NeverGivesUp(retries) == FALSE

\* the loop gives up after one conflict too many
GivesUpLate(retries) == retries > MAX_RETRIES + 1

\* if (retries > this.MAX_RETRIES) throw new ConflictException(...)
GivesUp(retries) == retries > MAX_RETRIES

\* updateAccountWithRetry(accountId) from the given retries count up to its next
\* await or its end: r is the run's locals, the result its locals, the accounts,
\* the <<id, expectedVersion>> of the update that succeeded and what is left of the stub
TryAccount(r, accts, store, accountId, retries) ==
  LET attempt == Attempt(accts, store, accountId, retries)
      base == [r EXCEPT !.current = accountId, !.retries = retries, !.delay = 0,
                        !.waiting = "result",
                        !.calls = (IF retries = 0 THEN 0 ELSE @) + attempt.called]
      left == IF stub > 0 THEN stub - attempt.called ELSE stub
  IN  CASE attempt.kind = "success" ->
             [run |-> [base EXCEPT !.summaries = Append(@, attempt.summary)],
              accounts |-> attempt.accounts, stub |-> left,
              swapped |-> <<(<<accountId, attempt.summary.version - 1>>)>>]
        [] attempt.kind = "error" ->
             [run |-> Caught(base, accountId, "NotFound"),
              accounts |-> accts, stub |-> left, swapped |-> <<>>]
        [] attempt.kind = "conflict" ->
             IF GivesUp(retries + 1)
               THEN [run |-> Caught([base EXCEPT !.retries = retries + 1], accountId,
                                    "TooManyRetries"),
                     accounts |-> accts, stub |-> left, swapped |-> <<>>]
               ELSE [run |-> [base EXCEPT !.retries = retries + 1, !.waiting = "sleep",
                                          !.delay = Delay(retries + 1)],
                     accounts |-> accts, stub |-> left, swapped |-> <<>>]

\* the for loop of updateAccountClosedBalances takes its next account
NextAccount(r, accts, store) ==
  TryAccount([r EXCEPT !.accountIds = Tail(@)], accts, store, Head(r.accountIds), 0)

\* signed sum, by the Balance Rule, of the open lines of an account
OpenDelta(accts, store, id) ==
  IF id \in DOMAIN accts
    THEN FoldBalance(0, accts[id].direction, FindUnreconciledByAccountId(store, id))
    ELSE 0

\* a write made by another caller is noted on the runs in flight
Disturbed(r) ==
  [c \in Callers |-> IF pc[c] = "idle" THEN r[c] ELSE [r[c] EXCEPT !.quiet = FALSE]]

\* ---------------------------------------------------------------- actions

Init ==
  /\ accounts = [a \in {} |-> NewAccount("debit", 0)]
  /\ transactions = <<>>
  /\ reconciliationInProgress = FALSE
  /\ now = 1
  /\ created = 0
  /\ committed = <<>>
  /\ opened = 0
  /\ swaps = <<>>
  /\ stub = 0
  /\ pc = [c \in Callers |-> "idle"]
  /\ run = [c \in Callers |-> IdleRun]
  /\ reply = Reply("init", "ok")

\* CreateAccountService.execute(dto): AccountRepository.save is a Map.set
CreateAccount(id, direction, closed_balance) ==
  /\ accounts' = [a \in DOMAIN accounts \cup {id} |->
                    IF a = id THEN NewAccount(direction, closed_balance) ELSE accounts[a]]
  /\ run' = Disturbed(run)
  /\ reply' = Reply("createAccount", "ok")
  /\ opened' = opened + 1
  /\ UNCHANGED <<transactions, reconciliationInProgress, now, created, committed, swaps,
                 stub, pc>>

RECURSIVE SaveAll(_, _)
SaveAll(store, lines) ==
  IF lines = <<>> THEN store ELSE SaveAll(Save(store, Head(lines)), Tail(lines))

\* CreateTransactionService.execute(dto)
CreateTransaction(id, entries) ==
  /\ IF ~ValidateTransactionBalance(entries)
       THEN /\ reply' = Reply("createTransaction", "UnbalancedTransaction")
            /\ UNCHANGED <<transactions, created, committed, run>>
     ELSE IF \E i \in DOMAIN entries : entries[i].account_id \notin DOMAIN accounts
       THEN /\ reply' = Reply("createTransaction", "AccountNotFound")
            /\ UNCHANGED <<transactions, created, committed, run>>
     ELSE LET transactionLines == [i \in DOMAIN entries |-> NewTransaction(entries[i], id)]
          IN  /\ transactions' = SaveAll(transactions, transactionLines)
              /\ created' = created + 1
              /\ committed' = Append(committed, transactionLines)
              /\ run' = Disturbed(run)
              /\ reply' = Created(id, transactionLines)
  /\ UNCHANGED <<accounts, reconciliationInProgress, now, opened, swaps, stub, pc>>

\* savedLines.forEach((saved) => this.transactionRepository.delete(saved.id))
RECURSIVE Rollback(_, _)
Rollback(store, savedLines) ==
  IF savedLines = <<>> THEN store
  ELSE Rollback(Delete(store, Head(savedLines).id), Tail(savedLines))

\* CreateTransactionService.execute(dto) on a repository whose save is replaced by
\* a spy that throws on its call number failing and saves on the calls before it:
\* saveTransactionLinesAtomically catches the error, deletes the lines it saved
\* and throws the error again
CreateTransactionSaveFails(id, entries, failing) ==
  /\ IF ~ValidateTransactionBalance(entries)
       THEN /\ reply' = Reply("createTransaction", "UnbalancedTransaction")
            /\ UNCHANGED <<transactions, run>>
     ELSE IF \E k \in DOMAIN entries : entries[k].account_id \notin DOMAIN accounts
       THEN /\ reply' = Reply("createTransaction", "AccountNotFound")
            /\ UNCHANGED <<transactions, run>>
     ELSE LET transactionLines == [i \in DOMAIN entries |-> NewTransaction(entries[i], id)]
              savedLines == SubSeq(transactionLines, 1, failing - 1)
          IN  /\ transactions' = Rollback(SaveAll(transactions, savedLines), savedLines)
              /\ run' = Disturbed(run)
              /\ reply' = Reply("createTransaction", "Database error")
  /\ UNCHANGED <<accounts, reconciliationInProgress, now, created, committed, opened,
                 swaps, stub, pc>>

\* transactionRepository.save(new Transaction({...})) for each entry, called on the
\* repository itself: nothing is validated
SaveTransactions(id, entries) ==
  /\ transactions' =
       SaveAll(transactions, [i \in DOMAIN entries |-> NewTransaction(entries[i], id)])
  /\ created' = created + 1
  /\ run' = Disturbed(run)
  /\ reply' = Reply("save", "ok")
  /\ UNCHANGED committed
  /\ UNCHANGED <<accounts, reconciliationInProgress, now, opened, swaps, stub, pc>>

\* jest.spyOn(accountRepository, 'updateClosedBalance'): the next n calls throw a
\* ConflictException, the calls after them reach the repository
StubUpdateClosedBalance(n) ==
  /\ stub' = n
  /\ reply' = Reply("stub", "ok")
  /\ UNCHANGED <<accounts, transactions, reconciliationInProgress, now, created, committed,
                 opened,
                 swaps, pc, run>>

\* the computed balance is stored on the account as its closed_balance
GetAccountStoring(id) ==
  /\ reply' = IF id \in DOMAIN accounts
                THEN [Reply("getAccount", "ok") EXCEPT
                        !.balance = ComputeBalance(accounts, transactions, id)]
                ELSE Reply("getAccount", "AccountNotFound")
  /\ accounts' = IF id \in DOMAIN accounts
                   THEN [accounts EXCEPT ![id].closed_balance =
                                            ComputeBalance(accounts, transactions, id)]
                   ELSE accounts
  /\ UNCHANGED <<transactions, reconciliationInProgress, now, created, committed, opened,
                 swaps, stub, pc, run>>

\* the read waits until no reconciliation holds the lock
GetAccountAfterRun(id) ==
  /\ ~reconciliationInProgress
  /\ reply' = IF id \in DOMAIN accounts
                THEN [Reply("getAccount", "ok") EXCEPT
                        !.balance = ComputeBalance(accounts, transactions, id)]
                ELSE Reply("getAccount", "AccountNotFound")
  /\ UNCHANGED <<accounts, transactions, reconciliationInProgress, now, created, committed,
                 opened, swaps, stub, pc, run>>

\* GetAccountService.execute(id)
GetAccount(id) ==
  /\ reply' = IF id \in DOMAIN accounts
                THEN [Reply("getAccount", "ok") EXCEPT
                        !.balance = ComputeBalance(accounts, transactions, id)]
                ELSE Reply("getAccount", "AccountNotFound")
  /\ UNCHANGED <<accounts, transactions, reconciliationInProgress, now, created, committed,
                 opened,
                 swaps, stub, pc, run>>

\* ReconciliationService.execute() from its invocation to its first await
ReconcileAll(c, t) ==
  /\ pc[c] = "idle"
  /\ IF LockHeld
       THEN /\ reply' = Reply("reconcileAll", "ReconciliationInProgress")
            /\ reconciliationInProgress' = LockAfterRejection
            /\ UNCHANGED <<accounts, transactions, now, swaps, stub, pc, run>>
     ELSE IF ~VerifyTransactionIntegrity(transactions)
       THEN /\ now' = t
            /\ reconciliationInProgress' = LockAfterRun(TRUE)
            /\ reply' = Reply("reconcileAll", "IntegrityViolation")
            /\ UNCHANGED <<accounts, transactions, swaps, stub, pc, run>>
     ELSE LET unreconciledTransactionIds == GetUnreconciledTransactionIds(transactions)
              store == MarkAll(transactions, unreconciledTransactionIds, t)
              r0 == [IdleRun EXCEPT
                       !.reconciledAt = t,
                       !.groups = Len(unreconciledTransactionIds),
                       !.accountIds = GetAllAccountIdsWithTransactions(store),
                       !.before = [a \in DOMAIN accounts |->
                                     ComputeBalance(accounts, transactions, a)],
                       !.closed = [a \in DOMAIN accounts |-> accounts[a].closed_balance],
                       !.marked = [a \in AccountIds |-> OpenDelta(accounts, transactions, a)]]
              first == IF r0.accountIds = <<>>
                         THEN [run |-> r0, accounts |-> accounts, stub |-> stub,
                               swapped |-> <<>>]
                         ELSE NextAccount(r0, accounts, store)
          IN  /\ now' = t
              /\ reconciliationInProgress' = TRUE
              /\ transactions' = store
              /\ accounts' = first.accounts
              /\ swaps' = swaps \o first.swapped
              /\ stub' = first.stub
              /\ run' = [run EXCEPT ![c] = first.run]
              /\ pc' = [pc EXCEPT ![c] = "suspended"]
              /\ reply' = Reply("reconcileAll", "pending")
  /\ UNCHANGED <<created, committed, opened>>

\* a suspended run is resumed: the timer of sleep() fired, or the awaited promise
\* settled; it runs to its next await or to the end of execute()
ReconcileResume(c) ==
  /\ pc[c] = "suspended"
  /\ IF run[c].waiting = "result" /\ run[c].accountIds = <<>>
       THEN /\ reconciliationInProgress' = LockAfterRun(FALSE)
            /\ pc' = [pc EXCEPT ![c] = "idle"]
            /\ run' = [run EXCEPT ![c] = IdleRun]
            /\ reply' = [Reply("resume", "ok") EXCEPT
                           !.result = Result(run[c]), !.run = run[c]]
            /\ UNCHANGED <<accounts, swaps, stub>>
       ELSE LET next == IF run[c].waiting = "sleep"
                          THEN TryAccount(run[c], accounts, transactions,
                                          run[c].current, run[c].retries)
                          ELSE NextAccount(run[c], accounts, transactions)
            IN  /\ accounts' = next.accounts
                /\ swaps' = swaps \o next.swapped
                /\ stub' = next.stub
                /\ run' = [run EXCEPT ![c] = next.run]
                /\ reply' = Reply("resume", "pending")
                /\ UNCHANGED <<reconciliationInProgress, pc>>
  /\ UNCHANGED <<transactions, now, created, committed, opened>>

\* ------------------------------------------------------- the callers' inputs

StoredIds == {transactions[i].id : i \in DOMAIN transactions}
StoredGroups == {transactions[i].transaction_id : i \in DOMAIN transactions}

\* ids a caller can send for an account, a transaction and a line: one in use or
\* the one that stands for those not in use
AccountIdInputs == DOMAIN accounts \cup FreshIds(AccountOrder, DOMAIN accounts)
TransactionIdInputs == StoredGroups \cup FreshIds(TransactionOrder, StoredGroups)
LineIdInputs(earlier) ==
  (StoredIds \cup earlier) \cup FreshIds(PostingOrder, StoredIds \cup earlier)

\* a createTransaction request: an id and exactly two lines
SomeCreateTransaction ==
  \E id \in TransactionIdInputs :
    \E i1 \in LineIdInputs({}), a1 \in AccountIds, d1 \in Directions, m1 \in Amounts :
      \E i2 \in LineIdInputs({i1}), a2 \in AccountIds, d2 \in Directions, m2 \in Amounts :
        CreateTransaction(id, <<LineDto(i1, a1, m1, d1), LineDto(i2, a2, m2, d2)>>)

\* the same request with ids that are not in use
SomeNewTransaction ==
  \E id \in FreshIds(TransactionOrder, StoredGroups) :
    \E i1 \in FreshIds(PostingOrder, StoredIds), a1 \in AccountIds, d1 \in Directions,
       m1 \in Amounts :
      \E i2 \in FreshIds(PostingOrder, StoredIds \cup {i1}), a2 \in AccountIds,
         d2 \in Directions, m2 \in Amounts :
        CreateTransaction(id, <<LineDto(i1, a1, m1, d1), LineDto(i2, a2, m2, d2)>>)

\* reconcileAll is invoked while the versions are below the bound of the model
VersionsBelowBound == \A a \in DOMAIN accounts : accounts[a].version < MaxVersion

\* exchanging debit and credit everywhere maps behaviours to behaviours (the code
\* only compares directions), so the first account is taken to be a debit account
FirstDirections == IF DOMAIN accounts = {} THEN {"debit"} ELSE Directions

\* Accounts are created under ids that are not in use; transactions and lines are
\* sent under any id, in use or not.
Next ==
  \/ \E id \in FreshIds(AccountOrder, DOMAIN accounts), d \in FirstDirections :
       CreateAccount(id, d, OpeningBalance)
  \/ /\ created < Len(TransactionOrder)
     /\ SomeCreateTransaction
  \/ /\ VersionsBelowBound
     /\ \E c \in Callers, t \in now..MaxTime : ReconcileAll(c, t)
  \/ \E c \in Callers : ReconcileResume(c)

Spec == Init /\ [][Next]_vars

\* Accounts are created under any id, in use or not, and balances are read;
\* transactions and lines are sent under ids that are not in use.
NextAccounts ==
  \/ /\ opened < Len(AccountOrder)
     /\ \E id \in AccountIdInputs, d \in FirstDirections, b \in InitialBalances :
          CreateAccount(id, d, b)
  \/ /\ created < Len(TransactionOrder)
     /\ SomeNewTransaction
  \/ \E id \in AccountIds : GetAccount(id)
  \/ /\ VersionsBelowBound
     /\ \E c \in Callers, t \in now..MaxTime : ReconcileAll(c, t)
  \/ \E c \in Callers : ReconcileResume(c)

SpecAccounts == Init /\ [][NextAccounts]_vars

\* numbers of calls a stub answers with a ConflictException
StubCounts == {1, MAX_RETRIES, MAX_RETRIES + 1}

\* a group saved on the repository: two lines under ids that are not in use, on
\* accounts that exist or not
SomeSavedTransaction ==
  \E id \in FreshIds(TransactionOrder, StoredGroups) :
    \E i1 \in FreshIds(PostingOrder, StoredIds), a1 \in AccountIds, d1 \in Directions,
       m1 \in Amounts :
      \E i2 \in FreshIds(PostingOrder, StoredIds \cup {i1}), a2 \in AccountIds,
         d2 \in Directions, m2 \in Amounts :
        SaveTransactions(id, <<LineDto(i1, a1, m1, d1), LineDto(i2, a2, m2, d2)>>)

\* no reconciliation run is in flight
NoRun == \A c \in Callers : pc[c] = "idle"

\* The reconciliation service on repositories that are used directly, by one
\* caller: while no run is in flight accounts are created and lines are saved on
\* the transaction repository, and before the first update updateClosedBalance of
\* the account repository is stubbed to throw ConflictException.
NextService ==
  \/ /\ NoRun
     /\ \E id \in FreshIds(AccountOrder, DOMAIN accounts), d \in FirstDirections :
          CreateAccount(id, d, OpeningBalance)
  \/ /\ NoRun /\ created < Len(TransactionOrder)
     /\ SomeSavedTransaction
  \/ /\ NoRun /\ stub = 0 /\ swaps = <<>>
     /\ \E n \in StubCounts : StubUpdateClosedBalance(n)
  \/ /\ VersionsBelowBound
     /\ \E c \in {"c1"}, t \in now..MaxTime : ReconcileAll(c, t)
  \/ \E c \in Callers : ReconcileResume(c)

SpecService == Init /\ [][NextService]_vars

\* a run sleeps between two attempts on an account
Waiting == \E c \in Callers : pc[c] = "suspended" /\ run[c].waiting = "sleep"

\* The same service while its run sleeps in sleep(delay): the timer is pending
\* and the event loop takes the requests of other callers, which read balances
\* and create transactions under ids that are not in use.
NextBackoff ==
  \/ NextService
  \/ /\ Waiting
     /\ \E id \in AccountIds : GetAccount(id)
  \/ /\ Waiting /\ created < Len(TransactionOrder)
     /\ SomeNewTransaction

SpecBackoff == Init /\ [][NextBackoff]_vars

\* a createTransaction request whose save number failing throws
SomeCreateTransactionSaveFails ==
  \E id \in TransactionIdInputs :
    \E i1 \in LineIdInputs({}), a1 \in AccountIds, d1 \in Directions, m1 \in Amounts :
      \E i2 \in LineIdInputs({i1}), a2 \in AccountIds, d2 \in Directions, m2 \in Amounts :
        \E failing \in 1..2 :
          CreateTransactionSaveFails(
            id, <<LineDto(i1, a1, m1, d1), LineDto(i2, a2, m2, d2)>>, failing)

\* a createTransaction request of no line or of one line
SomeShortCreateTransaction ==
  \E id \in TransactionIdInputs :
    \/ CreateTransaction(id, <<>>)
    \/ \E i1 \in LineIdInputs({}), a1 \in AccountIds, d1 \in Directions, m1 \in Amounts :
         CreateTransaction(id, <<LineDto(i1, a1, m1, d1)>>)

\* The create-transaction service on a transaction repository whose save can be
\* made to throw: accounts are created under ids that are not in use, and
\* transactions of two lines, one line or no line are sent under any ids.
NextCreate ==
  \/ \E id \in FreshIds(AccountOrder, DOMAIN accounts), d \in FirstDirections :
       CreateAccount(id, d, OpeningBalance)
  \/ /\ created < Len(TransactionOrder)
     /\ SomeCreateTransaction
  \/ /\ created < Len(TransactionOrder)
     /\ SomeShortCreateTransaction
  \/ /\ created < Len(TransactionOrder)
     /\ SomeCreateTransactionSaveFails
  \/ \E id \in AccountIds : GetAccount(id)

SpecCreate == Init /\ [][NextCreate]_vars

\* the mock answers every call of updateClosedBalance with ConflictException
EveryCall == 0 - 1

\* the retries counter of the run is within the range the model explores
RetriesBelowBound(c) == run[c].retries <= MAX_RETRIES + 1

\* the service under its test module, with a mock that fails every call
NextConflicts ==
  \/ /\ NoRun
     /\ \E id \in FreshIds(AccountOrder, DOMAIN accounts), d \in FirstDirections :
          CreateAccount(id, d, OpeningBalance)
  \/ /\ NoRun /\ created < Len(TransactionOrder)
     /\ SomeSavedTransaction
  \/ /\ NoRun /\ stub = 0 /\ swaps = <<>>
     /\ StubUpdateClosedBalance(EveryCall)
  \/ /\ VersionsBelowBound
     /\ \E c \in {"c1"}, t \in now..MaxTime : ReconcileAll(c, t)
  \/ \E c \in Callers : RetriesBelowBound(c) /\ ReconcileResume(c)

\* a settled promise resumes its continuation and the timer of sleep() fires: a
\* suspended run is not left suspended forever
Resumption == \A c \in Callers : WF_vars(RetriesBelowBound(c) /\ ReconcileResume(c))

SpecConflicts == Init /\ [][NextConflicts]_vars /\ Resumption

\* ------------------------------------------------------------- properties

\* the step just taken completed a reconciliation run, and no account or line
\* was written by another caller between its invocation and its completion
QuietRunCompleted == reply.op = "resume" /\ reply.outcome = "ok" /\ reply.run.quiet

\* C1: reconciliation invariant: when a reconcileAll run completes and no posting
\* was created since it was invoked, every account's computed balance equals the
\* balance computed immediately before the run.
C1_BalanceUnchangedByRun ==
  QuietRunCompleted =>
    \A a \in DOMAIN reply.run.before :
      ComputeBalance(accounts, transactions, a) = reply.run.before[a]

\* C2: when a reconcileAll run completes without a per-account failure, every
\* account summary reports the closed_balance the account had before the run as
\* previous, that value plus the signed sum of the lines the run marked as new,
\* and the stored closed_balance is the new value.
C2_SnapshotAdvances ==
  QuietRunCompleted =>
    \A k \in DOMAIN reply.result.accounts :
      LET summary == reply.result.accounts[k]
          id == summary.account_id
      IN  /\ summary.previous_closed_balance = reply.run.closed[id]
          /\ summary.new_closed_balance = reply.run.closed[id] + reply.run.marked[id]
          /\ accounts[id].closed_balance = summary.new_closed_balance

\* callers whose reconciliation run is in flight
InFlight == {c \in Callers : pc[c] # "idle"}

\* the step taken is an invocation of reconcileAll
Invoked == reply'.op = "reconcileAll"

\* C3: mutual exclusion: at most one reconcileAll run is in flight at any time,
\* and an invocation made while a run is in flight fails at once with
\* ReconciliationInProgress, marks no line, updates no account and starts no run.
C3_MutualExclusion ==
  [][/\ Cardinality(InFlight') <= 1
     /\ (Invoked /\ InFlight # {}) =>
          /\ reply'.outcome = "ReconciliationInProgress"
          /\ UNCHANGED <<accounts, transactions, reconciliationInProgress, now, swaps,
                         pc, run>>]_vars

C3_Witness ==
  /\ reply.op = "reconcileAll" /\ reply.outcome = "ReconciliationInProgress"
  /\ InFlight # {}

\* C4: the lock is released on every exit path of a run that acquired it: it is
\* held only while a run is in flight, and reconcileAll is rejected with
\* ReconciliationInProgress only while a run is in flight.
C4_LockReleased ==
  /\ InFlight = {} => ~reconciliationInProgress
  /\ (reply.op = "reconcileAll" /\ reply.outcome = "ReconciliationInProgress") =>
       InFlight # {}

\* an invocation ended with IntegrityViolation after an earlier run returned, and
\* the lock is free
C4_Witness ==
  /\ reply.op = "reconcileAll" /\ reply.outcome = "IntegrityViolation"
  /\ swaps # <<>>
  /\ ~reconciliationInProgress

\* sum of the amounts of the stored lines of a group in one direction
RECURSIVE SumAmounts(_)
SumAmounts(lines) ==
  IF lines = <<>> THEN 0 ELSE Head(lines).amount + SumAmounts(Tail(lines))

GroupTotal(g, direction) ==
  SumAmounts(SelectSeq(transactions,
                       LAMBDA t : t.transaction_id = g /\ t.direction = direction))

UnbalancedGroups == {g \in StoredGroups : GroupTotal(g, "debit") # GroupTotal(g, "credit")}

\* C5: reconcileAll invoked while some stored group, open or reconciled, has
\* total debits different from total credits (and no run is in flight) fails with
\* IntegrityViolation and changes no line and no account.
C5_IntegrityViolationAborts ==
  [][(Invoked /\ InFlight = {} /\ UnbalancedGroups # {}) =>
       /\ reply'.outcome = "IntegrityViolation"
       /\ UNCHANGED <<accounts, transactions, swaps, pc, run>>]_vars

\* the invocation failed on a group all of whose lines were reconciled
C5_Witness ==
  /\ reply.op = "reconcileAll" /\ reply.outcome = "IntegrityViolation"
  /\ \E g \in UnbalancedGroups :
       \A i \in DOMAIN transactions :
         transactions[i].transaction_id = g => transactions[i].reconciled_at # Null

\* C6: the step of a run that passes the integrity check gives every line that
\* was open the run's timestamp, changes the reconciled_at of no line to anything
\* else, and the summary the run returns reports that timestamp.
C6_MarkedWithRunTimestamp ==
  [][\A c \in Callers :
       /\ (pc[c] = "idle" /\ pc'[c] = "suspended") =>
            /\ run'[c].reconciledAt # Null
            /\ Len(transactions') = Len(transactions)
            /\ \A i \in DOMAIN transactions :
                 /\ transactions[i].reconciled_at = Null =>
                      transactions'[i].reconciled_at = run'[c].reconciledAt
                 /\ transactions'[i].reconciled_at # transactions[i].reconciled_at =>
                      transactions'[i].reconciled_at = run'[c].reconciledAt
       /\ (pc[c] = "suspended" /\ pc'[c] = "idle") =>
            /\ reply'.result.reconciled_at = run[c].reconciledAt
            /\ UNCHANGED transactions]_vars

\* a run that marked two groups completed, and every stored line carries the
\* timestamp its summary reports
C6_Witness ==
  /\ QuietRunCompleted
  /\ reply.result.total_transaction_groups_reconciled = 2
  /\ \A i \in DOMAIN transactions :
       transactions[i].reconciled_at = reply.result.reconciled_at

\* C7: monotonic reconciled_at: a stored line whose reconciled_at is not null is
\* still stored, with the same reconciled_at, after every step.
C7_ReconciledAtMonotonic ==
  [][\A i \in DOMAIN transactions :
       transactions[i].reconciled_at # Null =>
         \E j \in DOMAIN transactions' :
           /\ transactions'[j].id = transactions[i].id
           /\ transactions'[j].reconciled_at = transactions[i].reconciled_at]_vars

\* C8: in every state the stored lines that share a transaction_id are all open
\* or all reconciled.
C8_NoHalfReconciledGroup ==
  \A i, j \in DOMAIN transactions :
    transactions[i].transaction_id = transactions[j].transaction_id =>
      (transactions[i].reconciled_at = Null <=> transactions[j].reconciled_at = Null)

\* the accounts whose updateClosedBalance call succeeded in the step taken
Swapped ==
  {swaps'[k][1] : k \in (Len(swaps) + 1)..Len(swaps')}

\* C9: an account's version grows by exactly 1 in a step in which its
\* closed_balance update succeeds and does not change in any other step.
C9_VersionCountsUpdates ==
  [][\A a \in DOMAIN accounts :
       accounts'[a].version =
         IF a \in Swapped THEN accounts[a].version + 1 ELSE accounts[a].version]_vars

\* C10: no lost update: over the whole execution no two successful
\* updateClosedBalance calls have the same account and the same expected version.
C10_NoLostUpdate ==
  \A i, j \in DOMAIN swaps : swaps[i] = swaps[j] => i = j

\* the last error a run logged
LastFailed(r) == r.failed[Len(r.failed)]

\* C11: a run calls updateClosedBalance at most MAX_RETRIES + 1 times for one
\* account; it sleeps for a retry only after conflict 1 to MAX_RETRIES; and the
\* account's update fails with TooManyRetries exactly when call MAX_RETRIES + 1
\* conflicts too.
C11_BoundedRetries ==
  \A c \in Callers :
    LET r == run[c]
    IN  /\ r.calls <= MAX_RETRIES + 1
        /\ r.retries <= MAX_RETRIES + 1
        /\ r.waiting = "sleep" => (r.retries \in 1..MAX_RETRIES /\ r.calls = r.retries)
        /\ \A k \in DOMAIN r.summaries : r.summaries[k].retries <= MAX_RETRIES
        /\ r.retries = MAX_RETRIES + 1 <=>
             /\ r.calls = MAX_RETRIES + 1
             /\ r.failed # <<>>
             /\ LastFailed(r) = [account_id |-> r.current, error |-> "TooManyRetries"]

\* an account's update failed with TooManyRetries after MAX_RETRIES + 1 calls
C11_Witness ==
  \E c \in Callers :
    /\ run[c].calls = MAX_RETRIES + 1
    /\ run[c].failed # <<>>
    /\ LastFailed(run[c]).error = "TooManyRetries"

\* the step just taken completed a reconciliation run
RunCompleted == reply.op = "resume" /\ reply.outcome = "ok"

\* the account ids of a sequence of summaries or of logged errors
IdsOf(records) == {records[k].account_id : k \in DOMAIN records}

C13_MissingAccountFails ==
  RunCompleted =>
    \A i \in DOMAIN transactions : transactions[i].account_id \in DOMAIN accounts

\* the step taken is a createTransaction call
CreateCalled == reply'.op = "createTransaction"

\* total of the amounts of the entries of one direction
EntriesTotal(entries, direction) ==
  SumAmounts(SelectSeq(entries, LAMBDA e : e.direction = direction))

\* C14: a createTransaction call that fails validation (UnbalancedTransaction, or
\* AccountNotFound for any entry) persists nothing: a rejected call leaves the
\* line store as it was, and a call that persisted lines was balanced and named
\* existing accounts only.
C14_RejectedPersistsNothing ==
  [][CreateCalled =>
       /\ reply'.outcome \in {"UnbalancedTransaction", "AccountNotFound"} =>
            transactions' = transactions
       /\ reply'.outcome = "ok" =>
            LET entries == reply'.response.entries
            IN  /\ EntriesTotal(entries, "debit") = EntriesTotal(entries, "credit")
                /\ \A k \in DOMAIN entries : entries[k].account_id \in DOMAIN accounts
       /\ reply'.outcome # "ok" =>
            reply'.outcome \in {"UnbalancedTransaction", "AccountNotFound"}]_vars

\* a call was rejected while lines were stored
C14_Witness ==
  /\ reply.op = "createTransaction"
  /\ reply.outcome \in {"UnbalancedTransaction", "AccountNotFound"}
  /\ transactions # <<>>

\* C15: when a save fails part-way through a createTransaction batch, the error
\* is raised to the caller and the line store is left exactly as it was before
\* the call.
C15_RollbackRestoresStore ==
  [][(CreateCalled /\ reply'.outcome = "Database error") =>
       transactions' = transactions]_vars

\* C16: a createTransaction call whose id already identifies a stored group does
\* not succeed (it fails with DuplicateTransactionId and persists no line): the
\* id of every call that persists lines identified no group before the call.
C16_DuplicateTransactionIdRejected ==
  [][(CreateCalled /\ reply'.outcome = "ok") =>
       reply'.response.id \notin StoredGroups]_vars

\* the fields of a line that are set at its creation
Committed(t) ==
  [id |-> t.id, account_id |-> t.account_id, amount |-> t.amount,
   direction |-> t.direction, transaction_id |-> t.transaction_id]

\* C17: lines are append-only: no step deletes a stored line or changes a field
\* of it other than reconciled_at, whatever line ids a later createTransaction
\* carries.
C17_AppendOnly ==
  [][\A i \in DOMAIN transactions :
       \E j \in DOMAIN transactions' :
         Committed(transactions'[j]) = Committed(transactions[i])]_vars

\* the line is in the store as it was committed
Stored(t) ==
  \E i \in DOMAIN transactions : Committed(transactions[i]) = Committed(t)

\* C18: creation of the lines of one group is atomic: no state, and so no
\* getAccount or reconcileAll step, has a store holding some but not all lines of
\* a batch that createTransaction persisted.
C18_BatchAtomic ==
  \A b \in DOMAIN committed :
    (\E k \in DOMAIN committed[b] : Stored(committed[b][k])) =>
      (\A k \in DOMAIN committed[b] : Stored(committed[b][k]))

\* what the stored line number i adds to the balance of account a
Contribution(a, i) ==
  IF transactions[i].account_id # a \/ transactions[i].reconciled_at # Null THEN 0
  ELSE IF transactions[i].direction = accounts[a].direction
    THEN transactions[i].amount
    ELSE 0 - transactions[i].amount

\* the contributions of the first n stored lines
RECURSIVE Contributions(_, _)
Contributions(a, n) ==
  IF n = 0 THEN 0 ELSE Contributions(a, n - 1) + Contribution(a, n)

\* C19: computeBalance(account) is closed_balance plus, for each stored open line
\* of the account counted once, +amount when the directions are equal and -amount
\* otherwise; reconciled lines and lines of other accounts add nothing, a negative
\* result is not clamped, and getAccount returns that value.
C19_ComputeBalance ==
  /\ \A a \in DOMAIN accounts :
       ComputeBalance(accounts, transactions, a) =
         accounts[a].closed_balance + Contributions(a, Len(transactions))
  /\ (reply.op = "getAccount" /\ reply.outcome = "ok") =>
       \E a \in DOMAIN accounts :
         reply.balance = accounts[a].closed_balance + Contributions(a, Len(transactions))

\* getAccount returned a negative balance for an account that has a reconciled
\* line and an open line while another account has an open line
C19_Witness ==
  /\ reply.op = "getAccount"
  /\ reply.outcome = "ok"
  /\ reply.balance < 0
  /\ \E a \in DOMAIN accounts :
       /\ ComputeBalance(accounts, transactions, a) = reply.balance
       /\ \A b \in DOMAIN accounts \ {a} :
            ComputeBalance(accounts, transactions, b) # reply.balance
       /\ \E i, j, k \in DOMAIN transactions :
            /\ transactions[i].account_id = a /\ transactions[i].reconciled_at # Null
            /\ transactions[j].account_id = a /\ transactions[j].reconciled_at = Null
            /\ transactions[k].account_id # a /\ transactions[k].reconciled_at = Null

\* balances and amounts the Balance Rule is applied to
BalanceInputs == (0 - MaxBalance)..MaxBalance
AmountInputs == 0..MaxBalance

\* open lines of an account
OpenLines(a) ==
  {i \in DOMAIN transactions :
     transactions[i].account_id = a /\ transactions[i].reconciled_at = Null}

\* C20: Balance Rule: for every balance, account direction, line direction and
\* amount, apply returns balance + amount when the two directions are equal and
\* balance - amount when they differ; so it does on every stored line from the
\* closed_balance of every account.
C20_BalanceRule ==
  /\ \A balance \in BalanceInputs, accountDirection \in Directions,
        direction \in Directions, amount \in AmountInputs :
       ApplyTransactionToBalance(balance, accountDirection,
                                 [direction |-> direction, amount |-> amount]) =
         IF accountDirection = direction THEN balance + amount ELSE balance - amount
  /\ \A a \in DOMAIN accounts, i \in DOMAIN transactions :
       ApplyTransactionToBalance(accounts[a].closed_balance, accounts[a].direction,
                                 transactions[i]) =
         IF accounts[a].direction = transactions[i].direction
           THEN accounts[a].closed_balance + transactions[i].amount
           ELSE accounts[a].closed_balance - transactions[i].amount

\* getAccount returned, for an account whose only open line has the other
\* direction, its closed_balance less the amount of the line, while a line of the
\* account's own direction is stored
C20_Witness ==
  /\ reply.op = "getAccount"
  /\ reply.outcome = "ok"
  /\ \E a \in DOMAIN accounts :
       /\ \E i \in OpenLines(a) :
            /\ OpenLines(a) = {i}
            /\ transactions[i].direction # accounts[a].direction
            /\ transactions[i].amount > 0
            /\ reply.balance = accounts[a].closed_balance - transactions[i].amount
       /\ \A b \in DOMAIN accounts \ {a} :
            ComputeBalance(accounts, transactions, b) # reply.balance
       /\ \E j \in DOMAIN transactions : transactions[j].direction = accounts[a].direction

\* the step taken is a getAccount call
AccountRead == reply'.op = "getAccount"

\* C21: getAccount (computeBalance) is read-only: a call changes no account and
\* no line, it returns the computed balance of an account, and the balance of
\* every account computes to the same value after the call as before it, so a
\* second call with no write in between returns the same value.
C21_ReadOnly ==
  [][AccountRead =>
       /\ UNCHANGED <<accounts, transactions>>
       /\ reply'.outcome = "ok" =>
            \E a \in DOMAIN accounts :
              reply'.balance = ComputeBalance(accounts, transactions, a)
       /\ \A a \in DOMAIN accounts :
            ComputeBalance(accounts', transactions', a) =
              ComputeBalance(accounts, transactions, a)]_vars

\* getAccount returned the balance of an account that has open lines, which
\* differs from its closed_balance
C21_Witness ==
  /\ reply.op = "getAccount"
  /\ reply.outcome = "ok"
  /\ \E a \in DOMAIN accounts :
       /\ OpenLines(a) # {}
       /\ reply.balance = ComputeBalance(accounts, transactions, a)
       /\ reply.balance # accounts[a].closed_balance
       /\ \A b \in DOMAIN accounts \ {a} :
            ComputeBalance(accounts, transactions, b) # reply.balance

\* lists of at most MaxEntries entries
EntryInputs == [direction : Directions, amount : AmountInputs]
EntryLists == UNION {[1..n -> EntryInputs] : n \in 0..MaxEntries}

\* C22: the Transaction Integrity Check returns the debit total and the credit
\* total of the given lines and fails with UnbalancedTransaction exactly when the
\* two totals differ; an empty list is accepted, a single line with a positive
\* amount is rejected, and a createTransaction call that succeeded was balanced.
C22_IntegrityCheck ==
  /\ \A entries \in EntryLists :
       LET totals == Totals(entries, [debits |-> 0, credits |-> 0])
       IN  /\ totals.debits = EntriesTotal(entries, "debit")
           /\ totals.credits = EntriesTotal(entries, "credit")
           /\ ValidateTransactionBalance(entries) <=> totals.debits = totals.credits
           /\ entries = <<>> => ValidateTransactionBalance(entries)
           /\ (Len(entries) = 1 /\ entries[1].amount > 0) =>
                ~ValidateTransactionBalance(entries)
  /\ (reply.op = "createTransaction" /\ reply.outcome = "ok") =>
       EntriesTotal(reply.response.entries, "debit") =
         EntriesTotal(reply.response.entries, "credit")

\* a createTransaction call of no line succeeded
C22_Witness ==
  /\ reply.op = "createTransaction"
  /\ reply.outcome = "ok"
  /\ reply.response.entries = <<>>

\* stored lines of a group
GroupLines(g) == {i \in DOMAIN transactions : transactions[i].transaction_id = g}

\* stored groups that are balanced and whose lines are on accounts that exist
BalancedGroups ==
  {g \in StoredGroups :
     /\ GroupTotal(g, "debit") = GroupTotal(g, "credit")
     /\ \A i \in GroupLines(g) : transactions[i].account_id \in DOMAIN accounts}

\* what the Balance Rule makes the stored line number i add to its account
RuleContribution(i) ==
  ApplyTransactionToBalance(0, accounts[transactions[i].account_id].direction,
                            transactions[i])

\* the same, negated on a credit account
NormalContribution(i) ==
  IF accounts[transactions[i].account_id].direction = "debit"
    THEN RuleContribution(i)
    ELSE 0 - RuleContribution(i)

\* sums of the contributions of the lines of group g among the first n lines
RECURSIVE RuleSum(_, _)
RuleSum(g, n) ==
  IF n = 0 THEN 0
  ELSE RuleSum(g, n - 1) + (IF n \in GroupLines(g) THEN RuleContribution(n) ELSE 0)

RECURSIVE NormalSum(_, _)
NormalSum(g, n) ==
  IF n = 0 THEN 0
  ELSE NormalSum(g, n - 1) + (IF n \in GroupLines(g) THEN NormalContribution(n) ELSE 0)

\* the lines of the group are on accounts of one direction
OneDirection(g) ==
  \A i, j \in GroupLines(g) :
    accounts[transactions[i].account_id].direction =
      accounts[transactions[j].account_id].direction

RECURSIVE RetriesOf(_, _)
RetriesOf(summaries, n) ==
  IF n = 0 THEN 0 ELSE RetriesOf(summaries, n - 1) + summaries[n].retries

\* the step taken added a summary to the run of caller c
Summarised(c) == Len(run'[c].summaries) = Len(run[c].summaries) + 1

\* C24: when the update of an account conflicts k times (1 <= k <= MAX_RETRIES)
\* and then succeeds, the account's summary reports retries = k, one less than the
\* calls of updateClosedBalance made for it; the run returns its result, whose
\* total_retries is the sum of the retries of its account summaries.
C24_RetriesReported ==
  [][/\ \A c \in Callers :
          Summarised(c) =>
            LET summary == run'[c].summaries[Len(run'[c].summaries)]
            IN  /\ summary.retries = run'[c].calls - 1
                /\ summary.retries \in 0..MAX_RETRIES
                /\ summary.account_id = run'[c].current
     /\ (reply'.op = "resume" /\ reply'.outcome = "ok") =>
          /\ reply'.result.accounts = reply'.run.summaries
          /\ reply'.result.total_retries =
               RetriesOf(reply'.result.accounts, Len(reply'.result.accounts))]_vars

\* a run completed in which the update of the first account conflicted
\* MAX_RETRIES times and then succeeded, and a second account was updated at once
C24_Witness ==
  /\ RunCompleted
  /\ reply.run.failed = <<>>
  /\ Len(reply.result.accounts) = 2
  /\ reply.result.accounts[1].retries = MAX_RETRIES
  /\ reply.result.accounts[2].retries = 0
  /\ reply.result.total_retries = MAX_RETRIES

\* the step taken is a createAccount call
AccountCreated == reply'.op = "createAccount"

\* C25: creating an account under an id that already exists fails with a
\* Conflict error and leaves the existing account unchanged: a createAccount call
\* changes no account that exists, and a call that succeeded added an account.
C25_DuplicateAccountRejected ==
  [][AccountCreated =>
       /\ \A a \in DOMAIN accounts : a \in DOMAIN accounts' /\ accounts'[a] = accounts[a]
       /\ reply'.outcome = "ok" => DOMAIN accounts' # DOMAIN accounts]_vars

\* C26: after a run in which the update of an account failed with TooManyRetries,
\* and during which no line was created, the computed balance of that account is
\* the one it had before the run.
C26_FailedAccountKeepsBalance ==
  (RunCompleted /\ reply.run.quiet) =>
    \A k \in DOMAIN reply.run.failed :
      reply.run.failed[k].error = "TooManyRetries" =>
        ComputeBalance(accounts, transactions, reply.run.failed[k].account_id) =
          reply.run.before[reply.run.failed[k].account_id]

\* the run of caller c waits in the backoff of an account while other accounts
\* of the run have not been updated yet
InBackoff(c) ==
  /\ pc[c] = "suspended"
  /\ run[c].waiting = "sleep"
  /\ run[c].accountIds # <<>>

\* a step of the run of caller c that updates an account other than the one it
\* waits for
UpdatesAnother(c) ==
  /\ ReconcileResume(c)
  /\ \E a \in AccountIds \ {run[c].current} :
       \/ a \in IdsOf(run'[c].summaries) \ IdsOf(run[c].summaries)
       \/ a \in DOMAIN accounts /\ accounts'[a] # accounts[a]

\* C27: while the retry loop of one account waits in backoff, the updates of the
\* other accounts of the run are not blocked: a step that updates one of them
\* can be taken before the retry of the waiting account.
C27_OthersNotBlocked ==
  \A c \in Callers : InBackoff(c) => ENABLED UpdatesAnother(c)

\* the step taken is a request of another caller, served to its end
Served == reply'.op \in {"createTransaction", "getAccount"}

\* some createTransaction request can be served
CanCreate ==
  ENABLED (\E id \in TransactionIdInputs, i1, i2 \in LineIdInputs({}), a1, a2 \in AccountIds,
              d1, d2 \in Directions :
             CreateTransaction(id, <<LineDto(i1, a1, 1, d1), LineDto(i2, a2, 1, d2)>>))

\* C28: while a reconciliation run waits in backoff between retries,
\* createTransaction and getAccount of other callers are served at once: they
\* can be taken in every such state, and they run to completion while the run
\* still waits, holding its lock and its place in the retry loop.
C28_RequestsNotBlocked ==
  /\ [](Waiting => (CanCreate /\ \A a \in AccountIds : ENABLED GetAccount(a)))
  /\ [][(Waiting /\ Served) =>
          /\ reply'.outcome \in {"ok", "UnbalancedTransaction", "AccountNotFound"}
          /\ UNCHANGED <<pc, reconciliationInProgress, stub>>
          /\ \A c \in Callers :
               /\ run'[c].waiting = run[c].waiting
               /\ run'[c].retries = run[c].retries
               /\ run'[c].current = run[c].current]_vars

\* a balance was read, and a transaction was created, while a run waited in
\* backoff
C28_Witness ==
  /\ Waiting
  /\ reply.op = "getAccount"
  /\ reply.outcome = "ok"
  /\ \E c \in Callers : pc[c] = "suspended" /\ ~run[c].quiet

\* the step taken is an invocation of reconcileAll that was rejected
Rejected == Invoked /\ reply'.outcome = "ReconciliationInProgress"

\* C29: an invocation rejected with ReconciliationInProgress does not release
\* the lock of the run in flight: the lock is held as long as a run is in flight,
\* a rejected invocation leaves the lock held and the run in flight, and every
\* invocation made while a run is in flight is rejected.
C29_RejectionKeepsLock ==
  /\ [](InFlight # {} => reconciliationInProgress)
  /\ [][/\ Rejected => (reconciliationInProgress' /\ InFlight' = InFlight /\ InFlight # {})
        /\ (Invoked /\ reconciliationInProgress) => Rejected]_vars

\* an invocation was rejected while a run that has updated an account is still
\* in flight and holds the lock
C29_Witness ==
  /\ reply.op = "reconcileAll"
  /\ reply.outcome = "ReconciliationInProgress"
  /\ reconciliationInProgress
  /\ \E c \in Callers : pc[c] = "suspended" /\ run[c].summaries # <<>>

\* the step taken resumed the run of caller c after a backoff
Retried(c) ==
  /\ reply'.op = "resume"
  /\ pc[c] = "suspended"
  /\ run[c].waiting = "sleep"
  /\ run'[c] # run[c]

\* C30: after a conflict the next attempt reads the account again and computes
\* the balance again: the version it expects and the closed_balance it submits
\* are those of the account and of the lines as stored when the attempt is made,
\* whatever was created during the backoff.
C30_RetryReadsAgain ==
  [][\A c \in Callers :
       (Retried(c) /\ Summarised(c)) =>
         LET summary == run'[c].summaries[Len(run'[c].summaries)]
             id == run[c].current
         IN  /\ summary.account_id = id
             /\ summary.retries = run[c].retries
             /\ summary.previous_closed_balance = accounts[id].closed_balance
             /\ summary.new_closed_balance = ComputeBalance(accounts, transactions, id)
             /\ summary.version = accounts[id].version + 1
             /\ swaps' = Append(swaps, <<id, accounts[id].version>>)
             /\ accounts'[id].closed_balance = ComputeBalance(accounts, transactions, id)
             /\ accounts'[id].version = accounts[id].version + 1]_vars

\* a retry succeeded with a balance that counts a line created during the backoff
C30_Witness ==
  \E c \in Callers :
    /\ pc[c] = "suspended"
    /\ ~run[c].quiet
    /\ run[c].summaries # <<>>
    /\ LET summary == run[c].summaries[Len(run[c].summaries)]
       IN  /\ summary.retries > 0
           /\ summary.account_id = run[c].current
           /\ summary.new_closed_balance # summary.previous_closed_balance
           /\ OpenLines(summary.account_id) # {}

\* accounts referenced by a stored line
Referenced == {transactions[i].account_id : i \in DOMAIN transactions}

\* accounts a run has updated, has failed to update, is updating or will update
Planned(r) ==
  {r.accountIds[k] : k \in DOMAIN r.accountIds} \cup IdsOf(r.summaries) \cup IdsOf(r.failed)
    \cup (IF r.current = "" THEN {} ELSE {r.current})

\* the step taken started a run of caller c
Started(c) == pc[c] = "idle" /\ pc'[c] = "suspended"

\* C31: a reconcileAll run attempts the closed_balance update for exactly the
\* accounts referenced by a stored line, reconciled or open, when it starts: that
\* set does not change during the run, each of its accounts ends in the summary
\* or fails, and a step of the run changes an account of the set only, by one
\* version; an account referenced by no line keeps closed_balance and version.
C31_UpdatesReferencedAccounts ==
  [][\A c \in Callers :
       /\ Started(c) => Planned(run'[c]) = Referenced
       /\ (pc[c] = "suspended" /\ pc'[c] = "suspended") =>
            Planned(run'[c]) = Planned(run[c])
       /\ (pc[c] = "suspended" /\ pc'[c] = "idle") =>
            /\ IdsOf(reply'.run.summaries) \cup IdsOf(reply'.run.failed) = Planned(run[c])
            /\ reply'.run.accountIds = <<>>
       /\ (reply'.op \in {"reconcileAll", "resume"} /\ (Started(c) \/ pc[c] = "suspended")) =>
            \A a \in DOMAIN accounts :
              accounts'[a] # accounts[a] =>
                /\ a \in Planned(run'[c]) \cup Planned(run[c])
                /\ accounts'[a].version = accounts[a].version + 1]_vars

\* a run that marked no group completed: it updated an account whose lines were
\* all reconciled before, and left alone an account that no line references
C31_Witness ==
  /\ RunCompleted
  /\ reply.run.groups = 0
  /\ reply.run.summaries # <<>>
  /\ \E a \in DOMAIN accounts :
       /\ a \notin Referenced
       /\ a \notin IdsOf(reply.run.summaries)
       /\ accounts[a].version = 0
  /\ \E a \in IdsOf(reply.run.summaries) : accounts[a].version = 2

\* groups that have an open line
OpenGroups ==
  {transactions[i].transaction_id :
     i \in {j \in DOMAIN transactions : transactions[j].reconciled_at = Null}}

\* C32: total_transaction_groups_reconciled is the number of distinct groups that
\* had an open line when marking began (groups reconciled by an earlier run are
\* not counted again), total_accounts_reconciled is the number of accounts whose
\* update succeeded, and with no line in the store the run succeeds with both
\* counts 0 and integrity_check_passed true.
C32_SummaryCounts ==
  [][\A c \in Callers :
       /\ Started(c) => run'[c].groups = Cardinality(OpenGroups)
       /\ (pc[c] = "suspended" /\ pc'[c] = "suspended") => run'[c].groups = run[c].groups
       /\ (pc[c] = "suspended" /\ pc'[c] = "idle") =>
            /\ reply'.outcome = "ok"
            /\ reply'.result.total_transaction_groups_reconciled = run[c].groups
            /\ reply'.result.total_accounts_reconciled =
                 Cardinality(IdsOf(run[c].summaries))
            /\ reply'.result.total_accounts_reconciled = Len(reply'.result.accounts)
            /\ reply'.result.integrity_check_passed
            /\ transactions = <<>> =>
                 /\ reply'.result.total_transaction_groups_reconciled = 0
                 /\ reply'.result.total_accounts_reconciled = 0]_vars

\* a run completed that counted one group while the store holds two groups, one
\* of them reconciled by an earlier run
C32_Witness ==
  /\ RunCompleted
  /\ reply.result.total_transaction_groups_reconciled = 1
  /\ Cardinality(StoredGroups) = 2
  /\ \E i, j \in DOMAIN transactions :
       /\ transactions[i].reconciled_at # Null
       /\ transactions[j].reconciled_at # Null
       /\ transactions[i].reconciled_at < transactions[j].reconciled_at
  /\ reply.result.total_accounts_reconciled > 0

\* the delays in ms before retries 1, 2, ...
Backoff == <<100, 200, 400, 800, 1000, 1000, 1000, 1000, 1000, 1000>>

\* C33: before retry number r (r = 1..MAX_RETRIES) the run waits
\* min(100 * 2^(r-1), 1000) ms: 100, 200, 400, 800 and then 1000; the delay never
\* decreases from one retry to the next and never exceeds 1000; and a run that
\* sleeps before retry r sleeps that long.
C33_BackoffDelay ==
  /\ Len(Backoff) = MAX_RETRIES
  /\ \A r \in 1..MAX_RETRIES :
       /\ Delay(r) = Backoff[r]
       /\ Delay(r) <= 1000
       /\ r > 1 => Delay(r - 1) <= Delay(r)
  /\ \A c \in Callers :
       (pc[c] = "suspended" /\ run[c].waiting = "sleep") =>
         /\ run[c].retries \in 1..MAX_RETRIES
         /\ run[c].delay = Backoff[run[c].retries]

\* a run sleeps 1000 ms before its last retry
C33_Witness ==
  \E c \in Callers :
    /\ pc[c] = "suspended"
    /\ run[c].waiting = "sleep"
    /\ run[c].retries = MAX_RETRIES
    /\ run[c].delay = 1000

\* the step taken resumed a run
Resumed == reply'.op = "resume"

\* C34: a line committed by createTransaction while a run is in flight is
\* counted exactly once in the balance of its account: the run, when it updates
\* the account afterwards, does not fold the open line into closed_balance, so
\* no step of a resumed run changes the computed balance of an account.
C34_LateLineCountedOnce ==
  [][Resumed =>
       \A a \in DOMAIN accounts :
         ComputeBalance(accounts', transactions', a) =
           ComputeBalance(accounts, transactions, a)]_vars

\* C35: while a run is in flight and has yielded, and nothing was written by
\* another caller since it was invoked, the balance getAccount computes for every
\* account is the one computed just before the run started.
C35_BalanceDuringRun ==
  \A c \in Callers :
    (pc[c] = "suspended" /\ run[c].quiet) =>
      \A a \in DOMAIN run[c].before :
        ComputeBalance(accounts, transactions, a) = run[c].before[a]

\* C36: whatever createTransaction, getAccount and reconcileAll calls are
\* interleaved, no compare-and-swap of a run conflicts: a run never counts a retry,
\* never sleeps, never logs a failed account, calls updateClosedBalance once per
\* account, and every summary, in flight or returned, reports retries = 0.
C36_NoConflict ==
  /\ \A c \in Callers :
       /\ run[c].retries = 0
       /\ run[c].waiting = "result"
       /\ run[c].calls <= 1
       /\ run[c].failed = <<>>
       /\ \A k \in DOMAIN run[c].summaries : run[c].summaries[k].retries = 0
  /\ reply.result.total_retries = 0
  /\ reply.run.failed = <<>>
  /\ \A k \in DOMAIN reply.result.accounts : reply.result.accounts[k].retries = 0

\* a run that was interleaved with writes of other callers returned two summaries
C36_Witness ==
  /\ RunCompleted
  /\ ~reply.run.quiet
  /\ Len(reply.result.accounts) = 2
  /\ \A k \in DOMAIN reply.result.accounts : reply.result.accounts[k].retries = 0

\* C37: when lines enter the store through createTransaction only, every stored
\* group has total debits equal to total credits in every reachable state, and no
\* reconcileAll invocation ends with IntegrityViolation.
C37_GroupsBalanced ==
  /\ UnbalancedGroups = {}
  /\ reply.outcome # "IntegrityViolation"

\* sum of the balances getAccount computes for the accounts of ids, those of
\* credit accounts negated
RECURSIVE SignedBalances(_, _, _)
SignedBalances(accts, store, ids) ==
  IF ids = {} THEN 0
  ELSE LET a == CHOOSE x \in ids : TRUE
           balance == ComputeBalance(accts, store, a)
       IN  (IF accts[a].direction = "debit" THEN balance ELSE 0 - balance)
             + SignedBalances(accts, store, ids \ {a})

\* the ledger-wide trial balance
TrialBalance(accts, store) == SignedBalances(accts, store, DOMAIN accts)

\* C38: no step of createTransaction, getAccount or reconcileAll (its invocation
\* and each of its resumptions) changes the trial balance, the sum of the balances
\* of the debit accounts minus the sum of the balances of the credit accounts.
C38_TrialBalanceConstant ==
  [][reply'.op \in {"createTransaction", "getAccount", "reconcileAll", "resume"} =>
       TrialBalance(accounts', transactions') = TrialBalance(accounts, transactions)]_vars

\* C39: every run that holds the lock eventually ends, with a summary or an
\* error, and the lock is released, also when every updateClosedBalance call
\* conflicts; the retries counter of a run never passes MAX_RETRIES + 1.
C39_RunEnds ==
  /\ \A c \in Callers : pc[c] = "suspended" ~> (pc[c] = "idle" /\ ~reconciliationInProgress)
  /\ reconciliationInProgress ~> ~reconciliationInProgress
  /\ [](\A c \in Callers : run[c].retries <= MAX_RETRIES + 1)

\* a run every update of which conflicted ended: each of its two accounts was
\* given up after MAX_RETRIES + 1 conflicts, and the lock is free
C39_Witness ==
  /\ RunCompleted
  /\ stub = EveryCall
  /\ reply.run.summaries = <<>>
  /\ Len(reply.run.failed) = 2
  /\ \A k \in DOMAIN reply.run.failed : reply.run.failed[k].error = "TooManyRetries"
  /\ ~reconciliationInProgress

====
